---------------------------- MODULE Spec2Model ----------------------------
(***************************************************************************)
(* The top-level DescartesV2 fold delegate                                 *)
(* (offchain/src/fold/descartesv2_delegate.rs): `sync`, `fold` and the     *)
(* raw-to-logical translation `convert_raw_to_logical`.                    *)
(*                                                                         *)
(* The chain (the creation-event log and the creation block) and the       *)
(* epoch fold are the environment: the chain is fixed in Init, the answers *)
(* of the access capability and of the epoch fold are drawn per call.      *)
(*                                                                         *)
(* U256 quantities (timestamps, durations, epoch numbers) are naturals     *)
(* drawn from small ranges; every sum the code forms stays far below       *)
(* 2^256 for these ranges, so U256's checked addition never overflows.     *)
(***************************************************************************)
EXTENDS Integers, Sequences, FiniteSets, TLC

VARIABLES
    created_events,   \* the chain: DescartesV2Created events with their meta
    creation_block,   \* the chain: the block of the creation event, if known
    acc,              \* the accumulator the fold engine holds (NoAcc: none)
    call,             \* the inputs of the last sync/fold call
    result,           \* the outcome of the last sync/fold call
    epoch_query,      \* the request the last call made to the epoch fold
    translation,      \* the arguments the last call gave the translation
    config,           \* setup: the SetupConfig
    folds,            \* setup: the StateFold instances created so far
    handles,          \* setup: the Arc handles held while wiring
    step              \* setup: the next fold to create

delegate_vars ==
    <<created_events, creation_block, acc, call, result, epoch_query,
      translation>>

setup_vars == <<config, folds, handles, step>>

vars == <<delegate_vars, setup_vars>>

(***************************************************************************)
(* Bounds of the model.                                                    *)
(***************************************************************************)
MaxTimestamp == 2
MaxDuration == 1
MaxEpoch == 1
MaxCreationTimestamp == 1
MaxSafetyMargin == 3

Timestamps == 0..MaxTimestamp
CreationTimestamps == 0..MaxCreationTimestamp
Durations == 0..MaxDuration
EpochNumbers == 0..MaxEpoch

(***************************************************************************)
(* Option<T>.                                                              *)
(***************************************************************************)
None == [tag |-> "None"]
Some(x) == [tag |-> "Some", value |-> x]

NoAcc == [tag |-> "NoAcc"]
NotAsked == [tag |-> "NotAsked"]
Failed == [tag |-> "Err"]
Answer(x) == [tag |-> "Ok", value |-> x]

(***************************************************************************)
(* Data: epochs, raw contract phases, logical phases.                      *)
(***************************************************************************)
AccumulatingEpochNew(epoch_number) ==
    [epoch_number |-> epoch_number, inputs |-> <<>>]

FirstClaimTimestamp(claims) == claims.first_claim_timestamp

InputLists == {<<>>, <<"input">>}

AccumulatingEpochs ==
    {[epoch_number |-> n, inputs |-> i] : n \in EpochNumbers, i \in InputLists}

\* The epoch a raw AwaitingConsensus phase holds sealed: epoch 0, its inputs
\* closed, without claims or with a first claim at some timestamp.
SealedEpochs == {[epoch_number |-> 0, inputs |-> <<"input">>]}

ClaimedEpochs ==
    {[epoch_number |-> 0,
      claims |-> [first_claim_timestamp |-> t],
      inputs |-> <<"input">>] : t \in Timestamps}

SealedEpochNoClaims(sealed_epoch) ==
    [tag |-> "SealedEpochNoClaims", sealed_epoch |-> sealed_epoch]
SealedEpochWithClaims(claimed_epoch) ==
    [tag |-> "SealedEpochWithClaims", claimed_epoch |-> claimed_epoch]

RawInputAccumulation == [tag |-> "InputAccumulation"]
RawAwaitingConsensus(sealed_epoch, round_start) ==
    [tag |-> "AwaitingConsensus", sealed_epoch |-> sealed_epoch,
     round_start |-> round_start]
RawAwaitingDispute == [tag |-> "AwaitingDispute"]

InputAccumulation == [tag |-> "InputAccumulation"]
EpochSealedAwaitingFirstClaim(sealed_epoch) ==
    [tag |-> "EpochSealedAwaitingFirstClaim", sealed_epoch |-> sealed_epoch]
AwaitingConsensusNoConflict(claimed_epoch) ==
    [tag |-> "AwaitingConsensusNoConflict", claimed_epoch |-> claimed_epoch]
AwaitingConsensusAfterConflict(claimed_epoch, challenge_period_base_ts) ==
    [tag |-> "AwaitingConsensusAfterConflict", claimed_epoch |-> claimed_epoch,
     challenge_period_base_ts |-> challenge_period_base_ts]
ConsensusTimeout(claimed_epoch) ==
    [tag |-> "ConsensusTimeout", claimed_epoch |-> claimed_epoch]

\* The panic of unreachable!().
Unreachable == [tag |-> "Panic", err |-> "unreachable!()"]

(***************************************************************************)
(* The raw EpochState values the epoch fold may answer with.  The epochs   *)
(* below the oldest open one are finalized; in AwaitingConsensus the       *)
(* sealed epoch is the one before the accumulating epoch.                  *)
(***************************************************************************)
FinalizedUpTo(n) == [i \in 1..n |-> i - 1]

EpochStatesInputAccumulation ==
    {[current_phase |-> RawInputAccumulation,
      current_epoch |-> e,
      finalized_epochs |-> FinalizedUpTo(e.epoch_number),
      phase_change_timestamp |-> p] :
        e \in AccumulatingEpochs,
        p \in {None} \cup {Some(t) : t \in Timestamps}}

EpochStatesNoClaims ==
    {[current_phase |->
          RawAwaitingConsensus(SealedEpochNoClaims(s), round_start),
      current_epoch |-> AccumulatingEpochNew(s.epoch_number + 1),
      finalized_epochs |-> FinalizedUpTo(s.epoch_number),
      phase_change_timestamp |-> Some(round_start)] :
        s \in SealedEpochs, round_start \in Timestamps}

EpochStatesWithClaims ==
    {[current_phase |->
          RawAwaitingConsensus(SealedEpochWithClaims(c), round_start),
      current_epoch |-> AccumulatingEpochNew(c.epoch_number + 1),
      finalized_epochs |-> FinalizedUpTo(c.epoch_number),
      phase_change_timestamp |-> Some(round_start)] :
        c \in ClaimedEpochs, round_start \in Timestamps}

EpochStatesAwaitingDispute ==
    {[current_phase |-> RawAwaitingDispute,
      current_epoch |-> AccumulatingEpochNew(1),
      finalized_epochs |-> FinalizedUpTo(0),
      phase_change_timestamp |-> Some(0)]}

EpochStates ==
    EpochStatesInputAccumulation \cup EpochStatesNoClaims
        \cup EpochStatesWithClaims \cup EpochStatesAwaitingDispute


(***************************************************************************)
(* Blocks and the creation event.                                          *)
(***************************************************************************)
BlockHash(number) == 100 + number

\* A chain of blocks, one per timestamp: each has a hash of its own and its
\* predecessor's as parent_hash.
Blocks ==
    {[number |-> t + 1, hash |-> BlockHash(t + 1),
      parent_hash |-> BlockHash(t), timestamp |-> t] : t \in Timestamps}

\* The events a deployment may have emitted: the input duration and the
\* challenge period share the horizon MaxDuration.
DescartesV2CreatedEvents ==
    {[input_duration |-> d, challenge_period |-> MaxDuration - d,
      input |-> "input_address", output |-> "output_address",
      validator_manager |-> "validator_manager_address",
      dispute_manager |-> "dispute_manager_address"] : d \in Durations}

\* What query_with_meta may hold: no event, one, or two.
CreatedLogs ==
    LET Logged == {[event |-> ev, meta |-> [block_hash |-> BlockHash(0)]] :
                        ev \in DescartesV2CreatedEvents}
    IN  {<<>>} \cup {<<l>> : l \in Logged}
            \cup {<<l1, l2>> : l1 \in Logged, l2 \in Logged}

InitialEpochs == EpochNumbers

\* impl From<&(DescartesV2CreatedFilter, U256)> for ImmutableState
ImmutableStateFrom(src) ==
    LET ev == src[1]
        ts == src[2]
    IN  [input_duration |-> ev.input_duration,
         challenge_period |-> ev.challenge_period,
         contract_creation_timestamp |-> ts,
         input_contract_address |-> ev.input,
         output_contract_address |-> ev.output,
         validator_contract_address |-> ev.validator_manager,
         dispute_contract_address |-> ev.dispute_manager]

(***************************************************************************)
(* convert_raw_to_logical                                                  *)
(***************************************************************************)
\* Mutant: the accumulation always starts at the contract's creation.
InputAccumulationStartTimestamp_Creation(contract_state, constants) ==
    constants.contract_creation_timestamp

\* `let input_accumulation_start_timestamp = if let Some(ts) = ... `
InputAccumulationStartTimestamp(contract_state, constants) ==
    IF contract_state.phase_change_timestamp.tag = "Some"
    THEN contract_state.phase_change_timestamp.value
    ELSE constants.contract_creation_timestamp

\* Mutant: the input duration counts as passed before the threshold.
InputDurationPassed_Reversed(contract_state, constants, block) ==
    block.timestamp <
        InputAccumulationStartTimestamp(contract_state, constants)
            + constants.input_duration

\* Mutant: the input duration counts as passed at the threshold itself.
InputDurationPassed_AtThreshold(contract_state, constants, block) ==
    block.timestamp >=
        InputAccumulationStartTimestamp(contract_state, constants)
            + constants.input_duration

InputDurationPassed(contract_state, constants, block) ==
    block.timestamp >
        InputAccumulationStartTimestamp(contract_state, constants)
            + constants.input_duration

\* Mutant: the challenge period is never restarted by a later round.
TimeOfLastMove_FirstClaim(first_claim_timestamp, phase_change_timestamp) ==
    first_claim_timestamp

TimeOfLastMove(first_claim_timestamp, phase_change_timestamp) ==
    IF first_claim_timestamp >= phase_change_timestamp
    THEN first_claim_timestamp
    ELSE phase_change_timestamp

\* Mutant: consensus counts as timed out at the threshold itself.
ConsensusTimedOut_AtThreshold(time_of_last_move, constants, block) ==
    block.timestamp >= time_of_last_move + constants.challenge_period

ConsensusTimedOut(time_of_last_move, constants, block) ==
    block.timestamp > time_of_last_move + constants.challenge_period

\* Mutant: the sealed epoch is rebuilt from its number, its inputs lost.
SealedEpochNoClaimsPhase_Rebuilt(sealed_epoch) ==
    EpochSealedAwaitingFirstClaim(
        AccumulatingEpochNew(sealed_epoch.epoch_number))

SealedEpochNoClaimsPhase(sealed_epoch) ==
    EpochSealedAwaitingFirstClaim(sealed_epoch)

SealedEpochWithClaimsPhase(claimed_epoch, round_start, constants, block) ==
    LET first_claim_timestamp == FirstClaimTimestamp(claimed_epoch.claims)
        phase_change_timestamp == round_start
        time_of_last_move ==
            TimeOfLastMove(first_claim_timestamp, phase_change_timestamp)
    IN  IF ConsensusTimedOut(time_of_last_move, constants, block)
        THEN ConsensusTimeout(claimed_epoch)
        ELSE IF time_of_last_move = first_claim_timestamp
        THEN AwaitingConsensusNoConflict(claimed_epoch)
        ELSE AwaitingConsensusAfterConflict(claimed_epoch,
                                            phase_change_timestamp)

\* Mutant: the dispute variant is mapped to a logical phase.
AwaitingDisputePhase_Mapped == InputAccumulation

\* `ContractPhase::AwaitingDispute { .. } => { unreachable!() }`
AwaitingDisputePhase == Unreachable

\* `let phase_state = match contract_state.current_phase { ... }`
PhaseStateOf(contract_state, constants, block) ==
    LET current_phase == contract_state.current_phase
    IN  CASE current_phase.tag = "InputAccumulation" ->
                IF InputDurationPassed(contract_state, constants, block)
                THEN EpochSealedAwaitingFirstClaim(
                         contract_state.current_epoch)
                ELSE InputAccumulation
          [] current_phase.tag = "AwaitingConsensus" ->
                IF current_phase.sealed_epoch.tag = "SealedEpochNoClaims"
                THEN SealedEpochNoClaimsPhase(
                         current_phase.sealed_epoch.sealed_epoch)
                ELSE SealedEpochWithClaimsPhase(
                         current_phase.sealed_epoch.claimed_epoch,
                         current_phase.round_start, constants, block)
          [] current_phase.tag = "AwaitingDispute" -> AwaitingDisputePhase

\* Mutant: the fresh epoch keeps the number of the epoch just sealed.
CurrentEpochNoInputs_SameNumber(contract_state, constants, block) ==
    IF /\ contract_state.current_phase.tag = "InputAccumulation"
       /\ InputDurationPassed(contract_state, constants, block)
    THEN Some(contract_state.current_epoch.epoch_number)
    ELSE None

\* `current_epoch_no_inputs`: Some(epoch_number) when the raw state is an
\* expired InputAccumulation, None otherwise.
CurrentEpochNoInputs(contract_state, constants, block) ==
    IF /\ contract_state.current_phase.tag = "InputAccumulation"
       /\ InputDurationPassed(contract_state, constants, block)
    THEN Some(contract_state.current_epoch.epoch_number + 1)
    ELSE None

CurrentEpoch(contract_state, current_epoch_no_inputs) ==
    IF current_epoch_no_inputs.tag = "Some"
    THEN AccumulatingEpochNew(current_epoch_no_inputs.value)
    ELSE contract_state.current_epoch

\* Mutant: the finalized epochs are not copied into the result.
convert_raw_to_logical_NoFinalized(contract_state, constants, block, initial_epoch) ==
    LET phase_state == PhaseStateOf(contract_state, constants, block)
        current_epoch ==
            CurrentEpoch(contract_state,
                CurrentEpochNoInputs(contract_state, constants, block))
    IN  IF phase_state = Unreachable
        THEN Unreachable
        ELSE [constants |-> constants,
              initial_epoch |-> initial_epoch,
              current_phase |-> phase_state,
              finalized_epochs |-> <<>>,
              current_epoch |-> current_epoch]

convert_raw_to_logical(contract_state, constants, block, initial_epoch) ==
    LET phase_state == PhaseStateOf(contract_state, constants, block)
        current_epoch ==
            CurrentEpoch(contract_state,
                CurrentEpochNoInputs(contract_state, constants, block))
    IN  IF phase_state = Unreachable
        THEN Unreachable
        ELSE [constants |-> constants,
              initial_epoch |-> initial_epoch,
              current_phase |-> phase_state,
              finalized_epochs |-> contract_state.finalized_epochs,
              current_epoch |-> current_epoch]


(***************************************************************************)
(* Outcomes of a call: Ok(accumulator), a typed error, or a panic.         *)
(***************************************************************************)
Ok(value) == [tag |-> "Ok", value |-> value]
Err(type, err) == [tag |-> "Err", type |-> type, err |-> err]
Panic(err) == [tag |-> "Panic", err |-> err]

\* `Ok(convert_raw_to_logical(..))`: a panic inside the call unwinds.
OkUnlessPanic(value) == IF value = Unreachable THEN Unreachable ELSE Ok(value)

TranslationArgs(contract_state, constants, block, initial_epoch) ==
    [contract_state |-> contract_state, constants |-> constants,
     block |-> block, initial_epoch |-> initial_epoch]

Translate(args) ==
    convert_raw_to_logical(args.contract_state, args.constants, args.block,
                           args.initial_epoch)

EpochFoldRequest(initial_state, block_hash) ==
    [initial_state |-> initial_state, block_hash |-> block_hash]

(***************************************************************************)
(* sync                                                                    *)
(***************************************************************************)
\* Mutant: the emptiness test is left out.
CreateEventNotFound_Never(e) == FALSE

\* `e.is_empty()`
CreateEventNotFound(e) == Len(e) = 0

\* Mutant: the first of several events is taken.
ExactlyOneCreateEvent_AtLeastOne(e) == Len(e) >= 1

\* `assert_eq!(e.len(), 1)`
ExactlyOneCreateEvent(e) == Len(e) = 1

\* Whether sync gets as far as the creation block lookup.
SyncLooksUpCreationBlock(q) ==
    /\ q.tag = "Ok"
    /\ ~CreateEventNotFound(q.value)
    /\ ExactlyOneCreateEvent(q.value)

\* Whether sync gets as far as the epoch fold.
SyncAsksEpochFold(q, g) ==
    /\ SyncLooksUpCreationBlock(q)
    /\ g.tag = "Ok"
    /\ g.value.tag = "Some"

\* `self.epoch_fold.get_state_for_block(initial_state, block.hash)`
SyncEpochFoldRequest(initial_state, block) ==
    EpochFoldRequest(initial_state, block.hash)

\* The error an epoch fold failure is mapped to in sync.
SyncEpochFoldError == "SyncDelegateError"

\* `let constants = { ... ImmutableState::from(&(create_event, timestamp)) }`
SyncConstants(q, g) ==
    LET create_event == q.value[1].event
        timestamp == g.value.value.timestamp
    IN  ImmutableStateFrom(<<create_event, timestamp>>)

\* The arguments of sync's convert_raw_to_logical.
SyncTranslation(initial_state, block, q, g, f) ==
    TranslationArgs(f.value, SyncConstants(q, g), block, initial_state)

\* q: the answer of the creation event query; g: of get_block;
\* f: of the epoch fold.
sync(initial_state, block, q, g, f) ==
    IF q.tag = "Err"
    THEN Err("SyncContractError", "Error querying for descartes created")
    ELSE IF CreateEventNotFound(q.value)
    THEN Err("SyncDelegateError", "Descartes create event not found")
    ELSE IF ~ExactlyOneCreateEvent(q.value)
    THEN Panic("assert_eq!(e.len(), 1)")
    ELSE IF g.tag = "Err"
    THEN Err("SyncAccessError", "")
    ELSE IF g.value.tag = "None"
    THEN Err("SyncDelegateError", "Block not found")
    ELSE IF f.tag = "Err"
    THEN Err(SyncEpochFoldError, "Epoch state fold error")
    ELSE OkUnlessPanic(
             Translate(SyncTranslation(initial_state, block, q, g, f)))

(***************************************************************************)
(* fold                                                                    *)
(***************************************************************************)
\* Mutant: the creation timestamp is not carried over.
FoldConstants_NoCreationTimestamp(previous_state) ==
    [previous_state.constants EXCEPT !.contract_creation_timestamp = 0]

\* `let constants = previous_state.constants.clone();`
FoldConstants(previous_state) == previous_state.constants

\* Mutant: fold asks the epoch fold for the parent of the block.
FoldEpochFoldRequest_ParentHash(previous_state, block) ==
    EpochFoldRequest(previous_state.initial_epoch, block.parent_hash)

\* Mutant: fold asks the epoch fold from the first epoch.
FoldEpochFoldRequest_FromGenesis(previous_state, block) ==
    EpochFoldRequest(0, block.hash)

\* `self.epoch_fold.get_state_for_block(&previous_state.initial_epoch,
\*                                      block.hash)`
FoldEpochFoldRequest(previous_state, block) ==
    EpochFoldRequest(previous_state.initial_epoch, block.hash)

\* Mutant: fold reports the failure with sync's error.
FoldEpochFoldError_OfSync == "SyncDelegateError"

\* The error an epoch fold failure is mapped to in fold.
FoldEpochFoldError == "FoldDelegateError"

\* Mutant: fold carries the current epoch of the previous state over.
FoldTranslation_PreviousEpoch(previous_state, block, f) ==
    TranslationArgs(
        [f.value EXCEPT !.current_epoch = previous_state.current_epoch],
        FoldConstants(previous_state), block, previous_state.initial_epoch)

\* The arguments of fold's convert_raw_to_logical.
FoldTranslation(previous_state, block, f) ==
    TranslationArgs(f.value, FoldConstants(previous_state), block,
                    previous_state.initial_epoch)

fold(previous_state, block, f) ==
    IF f.tag = "Err"
    THEN Err(FoldEpochFoldError, "Epoch state fold error")
    ELSE OkUnlessPanic(Translate(FoldTranslation(previous_state, block, f)))

(***************************************************************************)
(* The fold engine around the delegate: it keeps the accumulator of a call *)
(* that succeeded and leaves its own untouched by one that failed.         *)
(***************************************************************************)
EngineKeeps(previous, outcome) ==
    IF outcome.tag = "Ok" THEN outcome.value ELSE previous

EpochFoldAnswers == {Failed} \cup {Answer(st) : st \in EpochStates}

(***************************************************************************)
(* setup.rs: the fold graph.  A StateFold instance is an entry of `folds`; *)
(* an Arc handle to it is its index, which Arc::clone shares.              *)
(***************************************************************************)
Addresses == {"address_a", "address_b"}

SetupConfigs ==
    {[safety_margin |-> sm, input_contract_address |-> i,
      descartes_contract_address |-> d] :
        sm \in 0..MaxSafetyMargin, i \in Addresses, d \in Addresses}

NoHandle == 0

NoHandles ==
    [input_fold |-> NoHandle, accumulating_fold |-> NoHandle,
     sealed_fold |-> NoHandle, finalized_fold |-> NoHandle,
     epoch_fold |-> NoHandle, state_fold |-> NoHandle]

\* `Arc::new(StateFold::new(delegate, access, config.safety_margin))`
StateFoldNew(created, delegate, safety_margin) ==
    Append(created, [delegate |-> delegate, safety_margin |-> safety_margin])

\* The handle of the instance created last.
Newest(created) == Len(created)

create_input(created, cfg) ==
    StateFoldNew(created,
        [kind |-> "InputFoldDelegate",
         address |-> cfg.input_contract_address],
        cfg.safety_margin)

create_accumulating_epoch(created, input_fold, cfg) ==
    StateFoldNew(created,
        [kind |-> "AccumulatingEpochFoldDelegate", input_fold |-> input_fold],
        cfg.safety_margin)

\* Mutant: the sealed epoch fold is built with no safety margin.
create_sealed_epoch_NoMargin(created, input_fold, cfg) ==
    StateFoldNew(created,
        [kind |-> "SealedEpochFoldDelegate",
         address |-> cfg.descartes_contract_address,
         input_fold |-> input_fold],
        0)

create_sealed_epoch(created, input_fold, cfg) ==
    StateFoldNew(created,
        [kind |-> "SealedEpochFoldDelegate",
         address |-> cfg.descartes_contract_address,
         input_fold |-> input_fold],
        cfg.safety_margin)

create_finalized_epoch(created, input_fold, cfg) ==
    StateFoldNew(created,
        [kind |-> "FinalizedEpochFoldDelegate",
         address |-> cfg.descartes_contract_address,
         input_fold |-> input_fold],
        cfg.safety_margin)

\* The tail of create_epoch: EpochFoldDelegate::new and its StateFold.
create_epoch_fold(created, held, cfg) ==
    StateFoldNew(created,
        [kind |-> "EpochFoldDelegate",
         address |-> cfg.descartes_contract_address,
         accumulating_fold |-> held.accumulating_fold,
         sealed_fold |-> held.sealed_fold,
         finalized_fold |-> held.finalized_fold],
        cfg.safety_margin)

\* The tail of create_descartes_state_fold: the top-level delegate and fold.
create_state_fold(created, epoch_fold, cfg) ==
    StateFoldNew(created,
        [kind |-> "DescartesV2FoldDelegate",
         address |-> cfg.descartes_contract_address,
         epoch_fold |-> epoch_fold],
        cfg.safety_margin)

\* create_descartes_state_fold, run to its end: the graph it returns.
create_descartes_state_fold(cfg) ==
    LET f1 == create_input(<<>>, cfg)
        f2 == create_accumulating_epoch(f1, Newest(f1), cfg)
        f3 == create_sealed_epoch(f2, Newest(f1), cfg)
        f4 == create_finalized_epoch(f3, Newest(f1), cfg)
        held == [NoHandles EXCEPT !.input_fold = Newest(f1),
                                  !.accumulating_fold = Newest(f2),
                                  !.sealed_fold = Newest(f3),
                                  !.finalized_fold = Newest(f4)]
        f5 == create_epoch_fold(f4, held, cfg)
        f6 == create_state_fold(f5, Newest(f5), cfg)
    IN  [folds |-> f6,
         handles |-> [held EXCEPT !.epoch_fold = Newest(f5),
                                  !.state_fold = Newest(f6)]]

\* The configuration the delegate of Spec was wired with.
WiredConfig ==
    [safety_margin |-> 0, input_contract_address |-> "address_a",
     descartes_contract_address |-> "address_b"]

(***************************************************************************)
(* Specification.                                                          *)
(***************************************************************************)
Init ==
    /\ config = WiredConfig
    /\ folds = create_descartes_state_fold(WiredConfig).folds
    /\ handles = create_descartes_state_fold(WiredConfig).handles
    /\ step = "done"
    /\ created_events \in CreatedLogs
    /\ creation_block \in
           {None} \cup {Some([timestamp |-> t]) : t \in CreationTimestamps}
    /\ acc = NoAcc
    /\ call = [op |-> "none"]
    /\ result = [tag |-> "None"]
    /\ epoch_query = None
    /\ translation = None

\* The engine's cold start: no accumulator yet.
Sync ==
    /\ acc = NoAcc
    /\ result.tag # "Panic"
    /\ \E initial_state \in InitialEpochs, block \in Blocks,
          q \in {Failed, Answer(created_events)},
          g \in {NotAsked, Failed, Answer(creation_block)},
          f \in {NotAsked} \cup EpochFoldAnswers :
            /\ (g = NotAsked) <=> ~SyncLooksUpCreationBlock(q)
            /\ (f = NotAsked) <=> ~SyncAsksEpochFold(q, g)
            /\ LET outcome == sync(initial_state, block, q, g, f)
               IN  /\ result' = outcome
                   /\ acc' = EngineKeeps(acc, outcome)
            /\ call' = [op |-> "sync", initial_state |-> initial_state,
                        block |-> block, created |-> q, creation |-> g,
                        epoch_fold |-> f]
            /\ epoch_query' =
                   IF SyncAsksEpochFold(q, g)
                   THEN Some(SyncEpochFoldRequest(initial_state, block))
                   ELSE None
            /\ translation' =
                   IF SyncAsksEpochFold(q, g) /\ f.tag = "Ok"
                   THEN Some(SyncTranslation(initial_state, block, q, g, f))
                   ELSE None
    /\ UNCHANGED <<created_events, creation_block>>
    /\ UNCHANGED setup_vars

\* The engine's incremental step from the accumulator it holds.
Fold ==
    /\ acc # NoAcc
    /\ result.tag # "Panic"
    /\ \E block \in Blocks, f \in EpochFoldAnswers :
            /\ LET outcome == fold(acc, block, f)
               IN  /\ result' = outcome
                   /\ acc' = EngineKeeps(acc, outcome)
            /\ call' = [op |-> "fold", block |-> block, epoch_fold |-> f]
            /\ epoch_query' = Some(FoldEpochFoldRequest(acc, block))
            /\ translation' =
                   IF f.tag = "Ok"
                   THEN Some(FoldTranslation(acc, block, f))
                   ELSE None
    /\ UNCHANGED <<created_events, creation_block>>
    /\ UNCHANGED setup_vars

Next == Sync \/ Fold

Spec == Init /\ [][Next]_vars

(***************************************************************************)
(* The wiring of the fold graph, one StateFold at a time, in the order of  *)
(* create_descartes_state_fold and create_epoch.                           *)
(***************************************************************************)
SetupInit ==
    /\ config \in SetupConfigs
    /\ folds = <<>>
    /\ handles = NoHandles
    /\ step = "create_input"
    /\ created_events = <<>>
    /\ creation_block = None
    /\ acc = NoAcc
    /\ call = [op |-> "none"]
    /\ result = [tag |-> "None"]
    /\ epoch_query = None
    /\ translation = None

CreateInput ==
    /\ step = "create_input"
    /\ folds' = create_input(folds, config)
    /\ handles' = [handles EXCEPT !.input_fold = Newest(folds')]
    /\ step' = "create_accumulating_epoch"
    /\ UNCHANGED <<config, delegate_vars>>

CreateAccumulatingEpoch ==
    /\ step = "create_accumulating_epoch"
    /\ folds' = create_accumulating_epoch(folds, handles.input_fold, config)
    /\ handles' = [handles EXCEPT !.accumulating_fold = Newest(folds')]
    /\ step' = "create_sealed_epoch"
    /\ UNCHANGED <<config, delegate_vars>>

CreateSealedEpoch ==
    /\ step = "create_sealed_epoch"
    /\ folds' = create_sealed_epoch(folds, handles.input_fold, config)
    /\ handles' = [handles EXCEPT !.sealed_fold = Newest(folds')]
    /\ step' = "create_finalized_epoch"
    /\ UNCHANGED <<config, delegate_vars>>

CreateFinalizedEpoch ==
    /\ step = "create_finalized_epoch"
    /\ folds' = create_finalized_epoch(folds, handles.input_fold, config)
    /\ handles' = [handles EXCEPT !.finalized_fold = Newest(folds')]
    /\ step' = "create_epoch"
    /\ UNCHANGED <<config, delegate_vars>>

CreateEpoch ==
    /\ step = "create_epoch"
    /\ folds' = create_epoch_fold(folds, handles, config)
    /\ handles' = [handles EXCEPT !.epoch_fold = Newest(folds')]
    /\ step' = "create_descartes_state_fold"
    /\ UNCHANGED <<config, delegate_vars>>

CreateDescartesStateFold ==
    /\ step = "create_descartes_state_fold"
    /\ folds' = create_state_fold(folds, handles.epoch_fold, config)
    /\ handles' = [handles EXCEPT !.state_fold = Newest(folds')]
    /\ step' = "done"
    /\ UNCHANGED <<config, delegate_vars>>

SetupNext ==
    \/ CreateInput
    \/ CreateAccumulatingEpoch
    \/ CreateSealedEpoch
    \/ CreateFinalizedEpoch
    \/ CreateEpoch
    \/ CreateDescartesStateFold

SetupSpec == SetupInit /\ [][SetupNext]_vars


(***************************************************************************)
(* Properties of the translation, read off the arguments and the outcome   *)
(* of the last call that reached it.                                       *)
(***************************************************************************)
Translated == translation.tag = "Some"

RawPhaseIs(tag) ==
    /\ Translated
    /\ translation.value.contract_state.current_phase.tag = tag

RawSealedEpochIs(tag) ==
    /\ RawPhaseIs("AwaitingConsensus")
    /\ translation.value.contract_state.current_phase.sealed_epoch.tag = tag

\* start_ts + input_duration of the translation's arguments.
InputThreshold(args) ==
    LET raw == args.contract_state
        start_ts ==
            IF raw.phase_change_timestamp = None
            THEN args.constants.contract_creation_timestamp
            ELSE raw.phase_change_timestamp.value
    IN  start_ts + args.constants.input_duration

\* max(first_claim_ts, round_start) + challenge_period of the arguments.
ChallengeThreshold(args) ==
    LET phase == args.contract_state.current_phase
        first_claim_ts ==
            phase.sealed_epoch.claimed_epoch.claims.first_claim_timestamp
        last_move_ts ==
            IF first_claim_ts > phase.round_start
            THEN first_claim_ts
            ELSE phase.round_start
    IN  last_move_ts + args.constants.challenge_period

\* C1: from raw InputAccumulation the logical phase is
\* EpochSealedAwaitingFirstClaim of the raw current epoch when
\* block.timestamp > start_ts + input_duration, and InputAccumulation when
\* block.timestamp <= start_ts + input_duration.
C1_InputAccumulationThreshold ==
    RawPhaseIs("InputAccumulation") =>
        LET args == translation.value
        IN  /\ result.tag = "Ok"
            /\ (args.block.timestamp > InputThreshold(args)) =>
                   result.value.current_phase =
                       [tag |-> "EpochSealedAwaitingFirstClaim",
                        sealed_epoch |-> args.contract_state.current_epoch]
            /\ (args.block.timestamp <= InputThreshold(args)) =>
                   result.value.current_phase = [tag |-> "InputAccumulation"]

\* Witness of C1: one second past the threshold the epoch is sealed.
C1_Witness ==
    /\ RawPhaseIs("InputAccumulation")
    /\ translation.value.block.timestamp
           = InputThreshold(translation.value) + 1
    /\ result.tag = "Ok"
    /\ result.value.current_phase.tag = "EpochSealedAwaitingFirstClaim"

\* C2: the logical current epoch is a fresh empty epoch numbered
\* raw.current_epoch.epoch_number + 1 when the raw phase is an expired
\* InputAccumulation, and the raw current epoch in every other case.
C2_CurrentEpoch ==
    (Translated /\ result.tag = "Ok") =>
        LET args == translation.value
            raw == args.contract_state
        IN  IF /\ raw.current_phase.tag = "InputAccumulation"
               /\ args.block.timestamp > InputThreshold(args)
            THEN result.value.current_epoch =
                     [epoch_number |-> raw.current_epoch.epoch_number + 1,
                      inputs |-> <<>>]
            ELSE result.value.current_epoch = raw.current_epoch

\* Witness of C2: an expired epoch that held inputs is replaced.
C2_Witness ==
    /\ RawPhaseIs("InputAccumulation")
    /\ translation.value.block.timestamp > InputThreshold(translation.value)
    /\ translation.value.contract_state.current_epoch.inputs # <<>>
    /\ result.tag = "Ok"
    /\ result.value.current_epoch # translation.value.contract_state.current_epoch

\* C3: from raw SealedEpochWithClaims the logical phase is ConsensusTimeout
\* of the claimed epoch exactly when
\* block.timestamp > max(first_claim_ts, round_start) + challenge_period,
\* whether or not the round started after the first claim.
C3_ConsensusTimeout ==
    RawSealedEpochIs("SealedEpochWithClaims") =>
        LET args == translation.value
            claimed_epoch ==
                args.contract_state.current_phase.sealed_epoch.claimed_epoch
        IN  /\ result.tag = "Ok"
            /\ (args.block.timestamp > ChallengeThreshold(args))
                   <=> (result.value.current_phase =
                            [tag |-> "ConsensusTimeout",
                             claimed_epoch |-> claimed_epoch])
            /\ (args.block.timestamp <= ChallengeThreshold(args))
                   <=> (result.value.current_phase.tag # "ConsensusTimeout")

\* Witness of C3: one second past the threshold, after a conflict.
C3_Witness ==
    /\ RawSealedEpochIs("SealedEpochWithClaims")
    /\ LET phase == translation.value.contract_state.current_phase
       IN  phase.round_start >
               phase.sealed_epoch.claimed_epoch.claims.first_claim_timestamp
    /\ translation.value.block.timestamp
           = ChallengeThreshold(translation.value) + 1
    /\ result.tag = "Ok"
    /\ result.value.current_phase.tag = "ConsensusTimeout"

\* C4: from raw SealedEpochWithClaims, before the timeout, the logical phase
\* is AwaitingConsensusNoConflict when round_start <= first_claim_ts and
\* AwaitingConsensusAfterConflict based at round_start when
\* round_start > first_claim_ts, with the claimed epoch unchanged.
C4_ConflictClassification ==
    (/\ RawSealedEpochIs("SealedEpochWithClaims")
     /\ translation.value.block.timestamp
            <= ChallengeThreshold(translation.value)) =>
        LET phase == translation.value.contract_state.current_phase
            claimed_epoch == phase.sealed_epoch.claimed_epoch
            first_claim_ts == claimed_epoch.claims.first_claim_timestamp
        IN  /\ result.tag = "Ok"
            /\ (phase.round_start <= first_claim_ts) =>
                   result.value.current_phase =
                       [tag |-> "AwaitingConsensusNoConflict",
                        claimed_epoch |-> claimed_epoch]
            /\ (phase.round_start > first_claim_ts) =>
                   result.value.current_phase =
                       [tag |-> "AwaitingConsensusAfterConflict",
                        claimed_epoch |-> claimed_epoch,
                        challenge_period_base_ts |-> phase.round_start]

\* Witness of C4: a round started after the first claim, not yet timed out.
C4_Witness ==
    /\ RawSealedEpochIs("SealedEpochWithClaims")
    /\ LET phase == translation.value.contract_state.current_phase
       IN  phase.round_start >
               phase.sealed_epoch.claimed_epoch.claims.first_claim_timestamp
    /\ result.tag = "Ok"
    /\ result.value.current_phase.tag = "AwaitingConsensusAfterConflict"

\* C5: from raw SealedEpochNoClaims the logical phase is
\* EpochSealedAwaitingFirstClaim of the same sealed epoch, whatever the
\* block timestamp, round_start, input_duration and challenge_period.
C5_SealedEpochNoClaims ==
    RawSealedEpochIs("SealedEpochNoClaims") =>
        LET phase == translation.value.contract_state.current_phase
        IN  /\ result.tag = "Ok"
            /\ result.value.current_phase =
                   [tag |-> "EpochSealedAwaitingFirstClaim",
                    sealed_epoch |-> phase.sealed_epoch.sealed_epoch]

\* Witness of C5: a sealed epoch without claims, seen at a block later than
\* round_start plus both periods.
C5_Witness ==
    /\ RawSealedEpochIs("SealedEpochNoClaims")
    /\ LET args == translation.value
       IN  args.block.timestamp >
               args.contract_state.current_phase.round_start
                   + args.constants.input_duration
                   + args.constants.challenge_period
    /\ result.tag = "Ok"
    /\ result.value.current_phase.tag = "EpochSealedAwaitingFirstClaim"


(***************************************************************************)
(* Properties of sync and fold.                                            *)
(***************************************************************************)
SyncErrors == {"SyncContractError", "SyncAccessError", "SyncDelegateError"}
FoldErrors == {"FoldDelegateError"}

\* The creation event query of the last sync answered with `n` events.
SyncSawEvents(n) ==
    /\ call.op = "sync"
    /\ call.created.tag = "Ok"
    /\ Len(call.created.value) = n

\* C6: the constants of the accumulator, and of the state every sync and
\* fold returns, are the constants sync computes from the chain's creation
\* event and creation block.
C6_ConstantsNeverChange ==
    LET synced ==
            SyncConstants(Answer(created_events), Answer(creation_block))
    IN  /\ acc # NoAcc => acc.constants = synced
        /\ result.tag = "Ok" => result.value.constants = synced

\* Witness of C6: a fold returned a state, the creation timestamp not 0.
C6_Witness ==
    /\ call.op = "fold"
    /\ result.tag = "Ok"
    /\ result.value.constants.contract_creation_timestamp > 0

\* C7: when the creation event query answers with no event, sync fails
\* with the sync delegate error "Descartes create event not found", leaves
\* no accumulator and does not query the epoch fold.
C7_CreateEventNotFound ==
    SyncSawEvents(0) =>
        /\ result = [tag |-> "Err", type |-> "SyncDelegateError",
                     err |-> "Descartes create event not found"]
        /\ acc = NoAcc
        /\ epoch_query = None

\* Witness of C7: a sync whose query answered with no event.
C7_Witness == SyncSawEvents(0) /\ result.tag = "Err"

\* C8, as stated: when the creation event query answers with more than one
\* event, sync fails by returning a delegate error.
C8_DuplicateIsDelegateError ==
    SyncSawEvents(2) =>
        /\ result.tag = "Err"
        /\ result.type = "SyncDelegateError"

\* C8, amended: when the creation event query answers with more than one
\* event, sync panics on its assertion: it returns neither a state nor an
\* error, leaves no accumulator and does not query the epoch fold.
C8_DuplicatePanics ==
    SyncSawEvents(2) =>
        /\ result = [tag |-> "Panic", err |-> "assert_eq!(e.len(), 1)"]
        /\ acc = NoAcc
        /\ epoch_query = None
        /\ translation = None

\* Witness of C8: a sync whose query answered with two events.
C8_Witness == SyncSawEvents(2) /\ result.tag = "Panic"

\* C9: every error a call returns is typed by its path, and no call that
\* fails carries a state.  In sync a failed creation event query is a
\* SyncContractError, a failed creation block lookup a SyncAccessError, a
\* creation block not found and a failed epoch fold a SyncDelegateError; in
\* fold a failed epoch fold is a FoldDelegateError.
C9_ErrorsTypedByPath ==
    /\ result.tag = "Err" =>
           /\ call.op = "sync" => result.type \in SyncErrors
           /\ call.op = "fold" => result.type \in FoldErrors
           /\ translation = None
    /\ result.tag \in {"Err", "Panic"} => "value" \notin DOMAIN result
    /\ call.op = "sync" =>
           /\ call.created = Failed =>
                  result.tag = "Err" /\ result.type = "SyncContractError"
           /\ call.creation = Failed =>
                  result.tag = "Err" /\ result.type = "SyncAccessError"
           /\ call.creation = Answer(None) =>
                  /\ result = [tag |-> "Err", type |-> "SyncDelegateError",
                               err |-> "Block not found"]
           /\ call.epoch_fold = Failed =>
                  result.tag = "Err" /\ result.type = "SyncDelegateError"
           /\ result.tag = "Err" => acc = NoAcc
    /\ call.op = "fold" =>
           /\ call.epoch_fold = Failed =>
                  result.tag = "Err" /\ result.type = "FoldDelegateError"

\* Witness of C9: a fold whose epoch fold failed.
C9_Witness ==
    /\ call.op = "fold"
    /\ call.epoch_fold = Failed
    /\ result.tag = "Err"


\* C11: for every raw state but the dispute variant the translation returns
\* a state whose finalized_epochs are the raw finalized_epochs, whose
\* initial_epoch is the initial_epoch argument and whose constants are the
\* constants argument, whatever the logical phase.
C11_Frame ==
    (Translated /\ ~RawPhaseIs("AwaitingDispute")) =>
        LET args == translation.value
        IN  /\ result.tag = "Ok"
            /\ result.value.finalized_epochs
                   = args.contract_state.finalized_epochs
            /\ result.value.initial_epoch = args.initial_epoch
            /\ result.value.constants = args.constants

\* Witness of C11: a translation that changes the phase and the current
\* epoch of a raw state with a finalized epoch.
C11_Witness ==
    /\ RawPhaseIs("InputAccumulation")
    /\ translation.value.contract_state.finalized_epochs # <<>>
    /\ translation.value.initial_epoch > 0
    /\ result.tag = "Ok"
    /\ result.value.current_phase.tag = "EpochSealedAwaitingFirstClaim"

\* C12: from the raw dispute variant the translation returns no state: the
\* call ends in the panic of unreachable!().
C12_DisputeIsUnreachable ==
    RawPhaseIs("AwaitingDispute") =>
        /\ result = [tag |-> "Panic", err |-> "unreachable!()"]
        /\ "value" \notin DOMAIN result

\* Witness of C12: a fold whose epoch fold answered with the dispute variant.
C12_Witness ==
    /\ call.op = "fold"
    /\ RawPhaseIs("AwaitingDispute")
    /\ result.tag = "Panic"


(***************************************************************************)
(* Properties of the wiring.                                               *)
(***************************************************************************)
FoldsOfKind(kind) == {i \in 1..Len(folds) : folds[i].delegate.kind = kind}

\* C14: every StateFold created carries config.safety_margin; the finished
\* graph has the six folds, one of each kind, and the accumulating, sealed
\* and finalized epoch delegates hold one and the same Input Fold, which was
\* created before each of them.
C14_FoldGraph ==
    /\ \A i \in 1..Len(folds) : folds[i].safety_margin = config.safety_margin
    /\ \A i \in 1..Len(folds) :
           folds[i].delegate.kind \in
               {"AccumulatingEpochFoldDelegate", "SealedEpochFoldDelegate",
                "FinalizedEpochFoldDelegate"} =>
               /\ folds[i].delegate.input_fold \in FoldsOfKind("InputFoldDelegate")
               /\ folds[i].delegate.input_fold < i
    /\ Cardinality(FoldsOfKind("InputFoldDelegate")) <= 1
    /\ step = "done" =>
           /\ Len(folds) = 6
           /\ \A kind \in {"InputFoldDelegate",
                            "AccumulatingEpochFoldDelegate",
                            "SealedEpochFoldDelegate",
                            "FinalizedEpochFoldDelegate",
                            "EpochFoldDelegate",
                            "DescartesV2FoldDelegate"} :
                  Cardinality(FoldsOfKind(kind)) = 1

\* Witness of C14: the graph is finished, with a safety margin above 0.
C14_Witness ==
    /\ step = "done"
    /\ config.safety_margin > 0
    /\ Len(folds) = 6


\* C15: from raw InputAccumulation the expiry test starts at the raw
\* phase_change_timestamp when there is one, and at the contract creation
\* timestamp of the constants only when there is none; with a phase change
\* timestamp, no creation timestamp changes the phase or the current epoch.
C15_StartTimestamp ==
    RawPhaseIs("InputAccumulation") =>
        LET args == translation.value
            raw == args.contract_state
            ts == args.block.timestamp
            sealed ==
                result.value.current_phase.tag
                    = "EpochSealedAwaitingFirstClaim"
        IN  /\ result.tag = "Ok"
            /\ raw.phase_change_timestamp.tag = "Some" =>
                   /\ sealed <=>
                          ts > raw.phase_change_timestamp.value
                                   + args.constants.input_duration
                   /\ \A c \in 0..(MaxTimestamp + MaxDuration + 1) :
                          LET other ==
                                  Translate([args EXCEPT
                                      !.constants.contract_creation_timestamp
                                          = c])
                          IN  /\ other.current_phase
                                     = result.value.current_phase
                              /\ other.current_epoch
                                     = result.value.current_epoch
            /\ raw.phase_change_timestamp.tag = "None" =>
                   sealed <=>
                       ts > args.constants.contract_creation_timestamp
                                + args.constants.input_duration

\* Witness of C15: a phase change timestamp seals the epoch at a block
\* where the creation timestamp would not have.
C15_Witness ==
    /\ RawPhaseIs("InputAccumulation")
    /\ LET args == translation.value
           raw == args.contract_state
       IN  /\ raw.phase_change_timestamp.tag = "Some"
           /\ args.block.timestamp
                  > raw.phase_change_timestamp.value
                        + args.constants.input_duration
           /\ args.block.timestamp
                  <= args.constants.contract_creation_timestamp
                         + args.constants.input_duration
           /\ result.tag = "Ok"
           /\ result.value.current_phase.tag
                  = "EpochSealedAwaitingFirstClaim"

\* C16: in sync and in fold for block B the epoch fold is asked for B's hash,
\* the translation is given the raw state of that answer and B itself, and
\* the outcome is the translation at B's timestamp.
C16_StateOfTheBlock ==
    /\ epoch_query.tag = "Some" =>
           epoch_query.value.block_hash = call.block.hash
    /\ Translated =>
           /\ epoch_query.tag = "Some"
           /\ call.epoch_fold.tag = "Ok"
           /\ translation.value.contract_state = call.epoch_fold.value
           /\ translation.value.block = call.block
           /\ translation.value.block.timestamp = call.block.timestamp
           /\ result =
                  OkUnlessPanic(
                      convert_raw_to_logical(
                          call.epoch_fold.value, translation.value.constants,
                          call.block, translation.value.initial_epoch))

\* Witness of C16: a fold for the latest block, asked by its hash.
C16_Witness ==
    /\ call.op = "fold"
    /\ Translated
    /\ call.block.timestamp = MaxTimestamp
    /\ epoch_query = Some(EpochFoldRequest(acc.initial_epoch,
                                           BlockHash(MaxTimestamp + 1)))
    /\ result.tag = "Ok"


\* Two previous states of the constants and initial_epoch of
\* `previous_state`; in its current phase, its current epoch and its
\* finalized epochs, `previous_state` differs from one of them at least.
SameOrigin(previous_state) ==
    {[previous_state EXCEPT
          !.current_phase = InputAccumulation,
          !.current_epoch = AccumulatingEpochNew(0),
          !.finalized_epochs = FinalizedUpTo(0)],
     [previous_state EXCEPT
          !.current_phase =
              EpochSealedAwaitingFirstClaim(AccumulatingEpochNew(0)),
          !.current_epoch = AccumulatingEpochNew(MaxEpoch + 1),
          !.finalized_epochs = FinalizedUpTo(MaxEpoch)]}

\* C17: a fold for block B from the accumulator returns what a sync from the
\* accumulator's initial_epoch returns for B (the creation event yielding
\* the accumulator's constants, the epoch fold giving the same raw state),
\* and returns the same from every previous state of the same constants and
\* initial_epoch, whatever its phase, current epoch and finalized epochs.
C17_PathIndependence ==
    [][(acc # NoAcc /\ call'.epoch_fold.tag = "Ok") =>
           /\ acc.constants =
                  SyncConstants(Answer(created_events),
                                Answer(creation_block))
           /\ result' =
                  sync(acc.initial_epoch, call'.block,
                       Answer(created_events), Answer(creation_block),
                       call'.epoch_fold)
           /\ \A other \in SameOrigin(acc) :
                  fold(other, call'.block, call'.epoch_fold) = result'
      ]_vars

\* Witness of C17: a fold has returned a state of another phase and another
\* epoch than a fresh accumulation of epoch 0.
C17_Witness ==
    /\ call.op = "fold"
    /\ result.tag = "Ok"
    /\ result.value.current_phase.tag = "ConsensusTimeout"
    /\ result.value.current_epoch.epoch_number = 1

\* The phase the translation gives at timestamp t, its other arguments kept.
PhaseAt(args, t) ==
    Translate([args EXCEPT !.block.timestamp = t]).current_phase

\* C18: with the raw state and the constants fixed, a raw InputAccumulation
\* that is sealed at a timestamp is sealed at every larger one, a consensus
\* timeout at a timestamp is one at every larger one, and before the timeout
\* the choice between NoConflict and AfterConflict is the same at every
\* timestamp.
C18_MonotoneInTimestamp ==
    (Translated /\ result.tag = "Ok") =>
        LET args == translation.value
            phase == result.value.current_phase
        IN  \A t \in (args.block.timestamp + 1)..(MaxTimestamp + 1) :
                /\ (RawPhaseIs("InputAccumulation")
                        /\ phase.tag = "EpochSealedAwaitingFirstClaim") =>
                       PhaseAt(args, t) = phase
                /\ phase.tag = "ConsensusTimeout" =>
                       PhaseAt(args, t) = phase
                /\ phase.tag \in {"AwaitingConsensusNoConflict",
                                  "AwaitingConsensusAfterConflict"} =>
                       \/ PhaseAt(args, t) = phase
                       \/ PhaseAt(args, t).tag = "ConsensusTimeout"

\* Witness of C18: an accumulation sealed at a block that is not the latest.
C18_Witness ==
    /\ RawPhaseIs("InputAccumulation")
    /\ result.tag = "Ok"
    /\ result.value.current_phase.tag = "EpochSealedAwaitingFirstClaim"
    /\ translation.value.block.timestamp < MaxTimestamp

\* C19: a sync returns a state whose initial_epoch is the initial_state it
\* was called with, a fold one whose initial_epoch is that of the previous
\* state, and the epoch fold is asked with that same value every time.
C19_InitialEpochPreserved ==
    [][/\ acc = NoAcc =>
              /\ epoch_query'.tag = "Some" =>
                     epoch_query'.value.initial_state = call'.initial_state
              /\ result'.tag = "Ok" =>
                     /\ result'.value.initial_epoch = call'.initial_state
                     /\ acc'.initial_epoch = call'.initial_state
       /\ acc # NoAcc =>
              /\ epoch_query'.tag = "Some"
              /\ epoch_query'.value.initial_state = acc.initial_epoch
              /\ result'.tag = "Ok" =>
                     result'.value.initial_epoch = acc.initial_epoch
              /\ acc'.initial_epoch = acc.initial_epoch
      ]_vars

\* Witness of C19: a fold from a later initial epoch has returned a state.
C19_Witness ==
    /\ call.op = "fold"
    /\ result.tag = "Ok"
    /\ result.value.initial_epoch = MaxEpoch
    /\ epoch_query.tag = "Some"
    /\ epoch_query.value.initial_state = MaxEpoch

=============================================================================
